---- MODULE Spec2Model ----
(***************************************************************************)
(* hinge: ExportImageDialog (dialogs.py) and the composite input widgets   *)
(* QNoneDoubleSpinBox, QColorButton and QFileOpenLineEdit (widgets.py).    *)
(*                                                                         *)
(* Numbers.  Python floats are modelled as exact rationals, written as a   *)
(* pair of factor lists [num, den] whose value is the product of num over  *)
(* the product of den.  Products are formed on decimal digit strings so    *)
(* that no intermediate value is limited by the width of a model integer.  *)
(* The values held by the toolkit's spin boxes are fixed-point integers:   *)
(* a QDoubleSpinBox with d decimals holds v meaning v / 10^d.              *)
(***************************************************************************)
EXTENDS Integers, Sequences, FiniteSets, TLC

(***************************************************************************)
(* Digit strings: little-endian sequences of decimal digits, no leading    *)
(* (high) zero; zero is the empty sequence.                                *)
(***************************************************************************)
RECURSIVE BigFromInt(_)
BigFromInt(n) == IF n = 0 THEN << >> ELSE <<n % 10>> \o BigFromInt(n \div 10)

RECURSIVE BigNorm(_)
BigNorm(b) ==
  IF b = << >> THEN << >>
  ELSE IF b[Len(b)] = 0 THEN BigNorm(SubSeq(b, 1, Len(b) - 1)) ELSE b

\* b * s + carry, for a small factor s (9 * s + carry stays a model integer)
RECURSIVE BigMulS(_, _, _)
BigMulS(b, s, carry) ==
  IF b = << >> THEN BigFromInt(carry)
  ELSE LET t == b[1] * s + carry
       IN  <<t % 10>> \o BigMulS(Tail(b), s, t \div 10)

RECURSIVE BigProd(_)
BigProd(fs) ==
  IF fs = << >> THEN <<1>>
  ELSE BigNorm(BigMulS(BigProd(Tail(fs)), Head(fs), 0))

\* long division of b by a small divisor s, from the high digit down:
\* i digits are still to be consumed, rem is the running remainder
RECURSIVE BigDivS(_, _, _, _)
BigDivS(b, s, i, rem) ==
  IF i = 0 THEN [q |-> << >>, r |-> rem]
  ELSE LET t    == rem * 10 + b[i]
           rest == BigDivS(b, s, i - 1, t % s)
       IN  [q |-> rest.q \o <<t \div s>>, r |-> rest.r]

\* floor(b / (product of ds)) by successive floor divisions, and whether the
\* division is exact
RECURSIVE BigDivAll(_, _)
BigDivAll(b, ds) ==
  IF ds = << >> THEN [q |-> b, exact |-> TRUE]
  ELSE LET one  == BigDivS(b, Head(ds), Len(b), 0)
           rest == BigDivAll(BigNorm(one.q), Tail(ds))
       IN  [q |-> rest.q, exact |-> rest.exact /\ one.r = 0]

RECURSIVE BigAddC(_, _, _)
BigAddC(a, b, carry) ==
  IF a = << >> /\ b = << >> THEN BigFromInt(carry)
  ELSE LET x == IF a = << >> THEN 0 ELSE a[1]
           y == IF b = << >> THEN 0 ELSE b[1]
           t == x + y + carry
       IN  <<t % 10>> \o BigAddC(IF a = << >> THEN a ELSE Tail(a),
                                 IF b = << >> THEN b ELSE Tail(b), t \div 10)

BigAdd(a, b) == BigNorm(BigAddC(a, b, 0))

\* a < b on normalised digit strings of equal length, compared from the top
RECURSIVE BigLtFrom(_, _, _)
BigLtFrom(a, b, i) ==
  IF i = 0 THEN FALSE
  ELSE IF a[i] # b[i] THEN a[i] < b[i] ELSE BigLtFrom(a, b, i - 1)

BigLt(a, b) ==
  IF Len(a) # Len(b) THEN Len(a) < Len(b) ELSE BigLtFrom(a, b, Len(a))

BigLeq(a, b) == ~BigLt(b, a)

RECURSIVE BigToInt(_)
BigToInt(b) == IF b = << >> THEN 0 ELSE b[1] + 10 * BigToInt(Tail(b))

\* the value of b, limited to the range lo..hi of a widget
BigClamp(b, lo, hi) ==
  IF BigLt(BigFromInt(hi), b) THEN hi
  ELSE IF BigLt(b, BigFromInt(lo)) THEN lo
  ELSE BigToInt(b)

Pow10(d) == CASE d = 0 -> 1 [] d = 1 -> 10 [] d = 2 -> 100 [] d = 3 -> 1000
              [] d = 4 -> 10000 [] d = 5 -> 100000

(***************************************************************************)
(* Rationals as factor lists.                                              *)
(***************************************************************************)
RInt(n) == [num |-> <<n>>, den |-> << >>]
RMul(a, b) == [num |-> a.num \o b.num, den |-> a.den \o b.den]
RDiv(a, b) == [num |-> a.num \o b.den, den |-> a.den \o b.num]

REq(a, b) == BigProd(a.num \o b.den) = BigProd(b.num \o a.den)
RLeq(a, b) == BigLeq(BigProd(a.num \o b.den), BigProd(b.num \o a.den))

\* |a - b| <= t + u
RWithin(a, b, t, u) ==
  LET scale == t.den \o u.den
      ad  == BigProd(a.num \o b.den \o scale)
      cb  == BigProd(b.num \o a.den \o scale)
      tol == BigAdd(BigProd(t.num \o u.den \o a.den \o b.den),
                    BigProd(u.num \o t.den \o a.den \o b.den))
  IN  BigLeq(ad, BigAdd(cb, tol)) /\ BigLeq(cb, BigAdd(ad, tol))

\* the rational r rounded to d decimals (half up), as a digit string scaled by 10^d
RRoundBig(r, d) ==
  LET twice == BigDivAll(BigProd(<<2, Pow10(d)>> \o r.num), r.den).q
  IN  BigNorm(BigDivS(BigAdd(twice, <<1>>), 2, Len(BigAdd(twice, <<1>>)), 0).q)

\* the integer part of r, and whether r is an integer
RFloor(r) == BigDivAll(BigProd(r.num), r.den)
RIsInt(r) == RFloor(r).exact

(***************************************************************************)
(* ExportImageDialog: class tables.                                        *)
(***************************************************************************)
PrintUnits == {"in", "mm", "cm", "m"}
ResolutionUnits == {"dpi", "px/mm", "px/cm", "px/m"}

print_u(u) ==
  CASE u = "in" -> [num |-> <<393701>>, den |-> <<10000>>]
    [] u = "mm" -> RInt(1000)
    [] u = "cm" -> RInt(100)
    [] u = "m"  -> RInt(1)

\* spin box parameters: decimals, single step, minimum, maximum; "init" is the
\* range the constructor gives both print boxes, at the toolkit's default of
\* two decimals
print_p(u) ==
  CASE u = "in" -> [dec |-> 3, step |-> 1, min |-> [num |-> <<1>>, den |-> <<100>>], max |-> RInt(1000)]
    [] u = "mm" -> [dec |-> 2, step |-> 1, min |-> [num |-> <<1>>, den |-> <<10>>], max |-> RInt(100000)]
    [] u = "cm" -> [dec |-> 3, step |-> 1, min |-> [num |-> <<1>>, den |-> <<100>>], max |-> RInt(10000)]
    [] u = "m"  -> [dec |-> 5, step |-> 1, min |-> [num |-> <<1>>, den |-> <<10000>>], max |-> RInt(100)]
    [] u = "init" -> [dec |-> 2, step |-> 1, min |-> [num |-> <<1>>, den |-> <<10000>>], max |-> RInt(10000)]

resolution_u(u) ==
  CASE u = "dpi"   -> [num |-> <<393701>>, den |-> <<10000>>]
    [] u = "px/mm" -> RInt(1000)
    [] u = "px/cm" -> RInt(100)
    [] u = "px/m"  -> RInt(1)

convert_res_to_unit(u) ==
  CASE u = "dpi" -> "in" [] u = "px/mm" -> "mm" [] u = "px/cm" -> "cm" [] u = "px/m" -> "m"

\* QSpinBox range of width and height; QDoubleSpinBox range and decimals of
\* resolution (value in hundredths)
PixelMin == 1
PixelMax == 100000
ResolutionDecimals == 2
ResolutionMin == 100
ResolutionMax == 100000000
DefaultResolution == 30000
default_print_units == "cm"
default_resolution_units == "dpi"

(***************************************************************************)
(* Toolkit spin boxes.  A print box is [v, dec, rng]: the value v / 10^dec *)
(* and the unit whose range (print_p) was last given to setRange.          *)
(***************************************************************************)
BoxValue(box) == [num |-> <<box.v>>, den |-> <<Pow10(box.dec)>>]
BoxLo(rng, dec) == RRoundBig(print_p(rng).min, dec)
BoxHi(rng, dec) == RRoundBig(print_p(rng).max, dec)

BigBound(b, lo, hi) == IF BigLt(hi, b) THEN hi ELSE IF BigLt(b, lo) THEN lo ELSE b

\* QDoubleSpinBox.setValue(r): round to the box's decimals, bound by its range
BoxSetValue(box, r) ==
  [box EXCEPT !.v = BigToInt(BigBound(RRoundBig(r, box.dec),
                                      BoxLo(box.rng, box.dec), BoxHi(box.rng, box.dec)))]

\* QDoubleSpinBox.setDecimals(d): the range the box was given is rounded to d
\* decimals, the value is bound by it and rounded; the result is a digit
\* string at d decimals
BoxSetDecimalsBig(box, d) ==
  LET lo  == BoxLo(box.rng, d)
      hi  == BoxHi(box.rng, d)
      cur == BigProd(<<box.v, Pow10(d)>>)
  IN  IF BigLt(cur, BigNorm(BigMulS(lo, Pow10(box.dec), 0))) THEN lo
      ELSE IF BigLt(BigNorm(BigMulS(hi, Pow10(box.dec), 0)), cur) THEN hi
      ELSE BigBound(RRoundBig(BoxValue(box), d), lo, hi)

\* whether the digit string b at d decimals is another number than the box holds
BoxDiffers(box, b, d) ==
  BigNorm(BigMulS(b, Pow10(box.dec), 0)) # BigProd(<<box.v, Pow10(d)>>)

\* QDoubleSpinBox.setRange for unit u on a value b at d decimals
BoxSetRangeBig(b, u, d) == BigBound(b, BoxLo(u, d), BoxHi(u, d))

\* QSpinBox.setValue(r) with a Python float: the float is truncated to an
\* integer and bound by the range
SpinSetValue(r) == BigClamp(BigNorm(RFloor(r).q), PixelMin, PixelMax)

\* QDoubleSpinBox.setValue(r) of the resolution box, in hundredths
ResolutionSetValue(r) ==
  BigClamp(RRoundBig(r, ResolutionDecimals), ResolutionMin, ResolutionMax)

(***************************************************************************)
(* ExportImageDialog: pure methods.                                        *)
(***************************************************************************)
\* Convert measurement from f to t
get_converted_measurement(xv, f, t) == RMul(RDiv(xv, print_u(f)), print_u(t))

\* the resolution box's value as a rational
ResValue(r) == [num |-> <<r>>, den |-> <<Pow10(ResolutionDecimals)>>]

get_as_print_size(s, u, ps, ps_u) ==
  get_converted_measurement(RDiv(s, RMul(ResValue(ps), resolution_u(ps_u))), "m", u)

get_pixel_size(s, pu, r, ru) ==
  RMul(RDiv(s, print_u(pu)), RMul(ResValue(r), resolution_u(ru)))

(***************************************************************************)
(* ExportImageDialog: state.                                               *)
(*   width, height            the pixel spin boxes' values                 *)
(*   width_p, height_p        the print spin boxes                         *)
(*   resolution               the resolution box's value, in hundredths    *)
(*   print_units, resolution_units   the combo boxes' current texts        *)
(*   _w, _h                   the internal pixel size (rationals)          *)
(*   stack                    the handlers that are running, innermost     *)
(*                            last; a frame is [f, pc, a, b, c] with the   *)
(*                            handler's local variables a, b, c            *)
(*   dpm                      the constructor's dpm argument               *)
(*   edits                    user edits made so far                       *)
(*   updates                  runs of update_print_dimensions and          *)
(*                            update_image_dimensions since the last edit  *)
(*   pre                      what the user's last edit was and what the   *)
(*                            dialog showed when it was made               *)
(***************************************************************************)
VARIABLES width, height, width_p, height_p, resolution, print_units,
          resolution_units, _w, _h, _updating, _current_dimension,
          _current_resolution, _current_resolution_units, stack, dpm, edits,
          updates, pre

dvars == <<width, height, width_p, height_p, resolution, print_units,
           resolution_units, _w, _h, _updating, _current_dimension,
           _current_resolution, _current_resolution_units, stack, dpm, edits,
           updates, pre>>

(***************************************************************************)
(* The widgets of widgets.py: state.                                       *)
(*                                                                         *)
(* QNoneDoubleSpinBox, a QDoubleSpinBox that can hold null:                *)
(*   is_None        the widget's null flag                                 *)
(*   none_enabled   QWidget.isEnabled()                                    *)
(*   none_value     the base class's value, in hundredths (the toolkit's   *)
(*                  default two decimals)                                  *)
(*   none_emitted   the argument of the last valueChanged emitted, <<v>>,  *)
(*                  or << >> before the first                              *)
(*   none_op        the last operation, [op, arg]; arg << >> is None       *)
(*                                                                         *)
(* QColorButton:                                                           *)
(*   _color            << >> for None, or <<name>>                         *)
(*   is_reset_enabled  the constructor's argument                          *)
(*   colorChanged      how often the signal colorChanged was emitted       *)
(*   styleSheet        the style sheet last set                            *)
(*   color_op          the last operation, [op, arg]                       *)
(*                                                                         *)
(* QFileOpenLineEdit and its subclasses:                                   *)
(*   _text          << >> for None, or <<text>>                            *)
(*   lineedit       the embedded QLineEdit's text                          *)
(*   file_class     "open", "save" or "folder": the class constructed      *)
(*   file_stack     the calls of setText that are running, innermost last  *)
(*   file_calls     calls of setText since the last change from outside    *)
(***************************************************************************)
VARIABLES is_None, none_enabled, none_value, none_emitted, none_op

nvars == <<is_None, none_enabled, none_value, none_emitted, none_op>>

VARIABLES _color, is_reset_enabled, colorChanged, styleSheet, color_op

cvars == <<_color, is_reset_enabled, colorChanged, styleSheet, color_op>>

VARIABLES _text, lineedit, file_class, file_stack, file_calls

fvars == <<_text, lineedit, file_class, file_stack, file_calls>>

vars == <<dvars, nvars, cvars, fvars>>

MaxEdits == 2

\* constructor arguments: the default size and dpm, and one other dpm
SizeInputs == {<<800, 600>>}
DefaultDpm == 11811
DpmInputs == {DefaultDpm, 2835}

Frame(f) == [f |-> f, pc |-> 1, a |-> RInt(0), b |-> RInt(0), c |-> 0]
Top == stack[Len(stack)]
Running(f, pc) == stack # << >> /\ Top.f = f /\ Top.pc = pc
Pop(stk) == SubSeq(stk, 1, Len(stk) - 1)
\* the running handler moves on to statement pc
Goto(stk, pc) == [stk EXCEPT ![Len(stk)].pc = pc]
\* a signal is emitted: the connected handler runs inside the emitting one
Emit(stk, changed, f) == IF changed THEN Append(stk, Frame(f)) ELSE stk

Snapshot(kind) ==
  [kind |-> kind, width |-> width, height |-> height, width_p |-> width_p,
   height_p |-> height_p, resolution |-> resolution, print_units |-> print_units,
   resolution_units |-> resolution_units, _w |-> _w, _h |-> _h]

InitDialog(dpms) ==
  \E size \in SizeInputs, d \in dpms :
    LET w0 == BigClamp(BigFromInt(size[1]), PixelMin, PixelMax)
        h0 == BigClamp(BigFromInt(size[2]), PixelMin, PixelMax)
        box0 == [v |-> 0, dec |-> print_p("init").dec, rng |-> "init"]
    IN  /\ dpm = d
        /\ width = w0
        /\ height = h0
        /\ resolution = DefaultResolution
        /\ print_units = default_print_units
        /\ resolution_units = default_resolution_units
        /\ _w = RInt(w0)
        /\ _h = RInt(h0)
        /\ width_p = BoxSetValue(box0, get_as_print_size(RInt(w0), default_print_units,
                                   DefaultResolution, default_resolution_units))
        /\ height_p = BoxSetValue(box0, get_as_print_size(RInt(h0), default_print_units,
                                    DefaultResolution, default_resolution_units))
        /\ _updating = FALSE
        /\ _current_dimension = default_print_units
        /\ _current_resolution = DefaultResolution
        /\ _current_resolution_units = default_resolution_units
        /\ stack = << >>
        /\ edits = 0
        /\ updates = 0
        /\ pre = [kind |-> "none", width |-> w0, height |-> h0, width_p |-> box0,
                  height_p |-> box0, resolution |-> DefaultResolution,
                  print_units |-> default_print_units,
                  resolution_units |-> default_resolution_units,
                  _w |-> RInt(w0), _h |-> RInt(h0)]

(***************************************************************************)
(* The user's edits.  The toolkit delivers an edit when no handler runs.   *)
(* A spin box is stepped up or down by its single step or typed to a value *)
(* of its range; a combo box is set to another entry.                      *)
(***************************************************************************)
Idle == stack = << >> /\ edits < MaxEdits

PixelEdits(cur) == ({cur + 1, cur - 1, PixelMin, PixelMax} \ {cur}) \cap (PixelMin..PixelMax)

UserEditsWidth ==
  /\ Idle
  /\ \E v \in PixelEdits(width) :
       /\ width' = v
       /\ pre' = Snapshot("width")
  /\ stack' = <<Frame("changed_image_dimensions")>>
  /\ edits' = edits + 1
  /\ updates' = 0
  /\ UNCHANGED <<height, width_p, height_p, resolution, print_units, resolution_units,
                 _w, _h, _updating, _current_dimension, _current_resolution,
                 _current_resolution_units, dpm>>
  /\ UNCHANGED <<nvars, cvars, fvars>>

UserEditsHeight ==
  /\ Idle
  /\ \E v \in PixelEdits(height) :
       /\ height' = v
       /\ pre' = Snapshot("height")
  /\ stack' = <<Frame("changed_image_dimensions")>>
  /\ edits' = edits + 1
  /\ updates' = 0
  /\ UNCHANGED <<width, width_p, height_p, resolution, print_units, resolution_units,
                 _w, _h, _updating, _current_dimension, _current_resolution,
                 _current_resolution_units, dpm>>
  /\ UNCHANGED <<nvars, cvars, fvars>>

\* one single step up or down, or the last digit up by one
PrintEdits(box) ==
  {v \in {box.v + Pow10(box.dec), box.v - Pow10(box.dec), box.v + 1} :
     /\ v >= 0
     /\ BigLeq(BoxLo(box.rng, box.dec), BigFromInt(v))
     /\ BigLeq(BigFromInt(v), BoxHi(box.rng, box.dec))}

UserEditsWidthP ==
  /\ Idle
  /\ \E v \in PrintEdits(width_p) :
       /\ width_p' = [width_p EXCEPT !.v = v]
       /\ pre' = Snapshot("width_p")
  /\ stack' = <<Frame("changed_print_dimensions")>>
  /\ edits' = edits + 1
  /\ updates' = 0
  /\ UNCHANGED <<width, height, height_p, resolution, print_units, resolution_units,
                 _w, _h, _updating, _current_dimension, _current_resolution,
                 _current_resolution_units, dpm>>
  /\ UNCHANGED <<nvars, cvars, fvars>>

UserEditsHeightP ==
  /\ Idle
  /\ \E v \in PrintEdits(height_p) :
       /\ height_p' = [height_p EXCEPT !.v = v]
       /\ pre' = Snapshot("height_p")
  /\ stack' = <<Frame("changed_print_dimensions")>>
  /\ edits' = edits + 1
  /\ updates' = 0
  /\ UNCHANGED <<width, height, width_p, resolution, print_units, resolution_units,
                 _w, _h, _updating, _current_dimension, _current_resolution,
                 _current_resolution_units, dpm>>
  /\ UNCHANGED <<nvars, cvars, fvars>>

ResolutionEdits(cur) ==
  ({cur + 100, cur - 100, 2 * cur, ResolutionMin, ResolutionMax} \ {cur})
     \cap (ResolutionMin..ResolutionMax)

UserEditsResolution ==
  /\ Idle
  /\ \E v \in ResolutionEdits(resolution) :
       /\ resolution' = v
       /\ pre' = Snapshot("resolution")
  /\ stack' = <<Frame("changed_print_resolution")>>
  /\ edits' = edits + 1
  /\ updates' = 0
  /\ UNCHANGED <<width, height, width_p, height_p, print_units, resolution_units,
                 _w, _h, _updating, _current_dimension, _current_resolution,
                 _current_resolution_units, dpm>>
  /\ UNCHANGED <<nvars, cvars, fvars>>

UserSelectsPrintUnits ==
  /\ Idle
  /\ \E u \in PrintUnits \ {print_units} :
       /\ print_units' = u
       /\ pre' = Snapshot("print_units")
  /\ stack' = <<Frame("changed_print_units")>>
  /\ edits' = edits + 1
  /\ updates' = 0
  /\ UNCHANGED <<width, height, width_p, height_p, resolution, resolution_units,
                 _w, _h, _updating, _current_dimension, _current_resolution,
                 _current_resolution_units, dpm>>
  /\ UNCHANGED <<nvars, cvars, fvars>>

UserSelectsResolutionUnits ==
  /\ Idle
  /\ \E u \in ResolutionUnits \ {resolution_units} :
       /\ resolution_units' = u
       /\ pre' = Snapshot("resolution_units")
  /\ stack' = <<Frame("changed_resolution_units")>>
  /\ edits' = edits + 1
  /\ updates' = 0
  /\ UNCHANGED <<width, height, width_p, height_p, resolution, print_units,
                 _w, _h, _updating, _current_dimension, _current_resolution,
                 _current_resolution_units, dpm>>
  /\ UNCHANGED <<nvars, cvars, fvars>>

(***************************************************************************)
(* The handlers, one action per statement that can emit a signal.  A       *)
(* statement that changes a box's value emits valueChanged before the next *)
(* statement runs, and the connected handler runs to its end inside it.    *)
(***************************************************************************)
changed_image_dimensions_guard ==
  /\ Running("changed_image_dimensions", 1)
  /\ IF ~_updating
       THEN /\ _updating' = TRUE
            /\ stack' = Append(Goto(stack, 2), Frame("update_print_dimensions"))
       ELSE /\ _updating' = _updating
            /\ stack' = Goto(stack, 2)
  /\ UNCHANGED <<width, height, width_p, height_p, resolution, print_units,
                 resolution_units, _w, _h, _current_dimension, _current_resolution,
                 _current_resolution_units, dpm, edits, updates, pre>>
  /\ UNCHANGED <<nvars, cvars, fvars>>

changed_image_dimensions_sync ==
  /\ Running("changed_image_dimensions", 2)
  /\ _updating' = FALSE
  /\ _w' = RInt(width)
  /\ _h' = RInt(height)
  /\ stack' = Pop(stack)
  /\ UNCHANGED <<width, height, width_p, height_p, resolution, print_units,
                 resolution_units, _current_dimension, _current_resolution,
                 _current_resolution_units, dpm, edits, updates, pre>>
  /\ UNCHANGED <<nvars, cvars, fvars>>

changed_print_dimensions_guard ==
  /\ Running("changed_print_dimensions", 1)
  /\ IF ~_updating
       THEN /\ _updating' = TRUE
            /\ stack' = Append(Goto(stack, 2), Frame("update_image_dimensions"))
       ELSE /\ _updating' = _updating
            /\ stack' = Goto(stack, 2)
  /\ UNCHANGED <<width, height, width_p, height_p, resolution, print_units,
                 resolution_units, _w, _h, _current_dimension, _current_resolution,
                 _current_resolution_units, dpm, edits, updates, pre>>
  /\ UNCHANGED <<nvars, cvars, fvars>>

changed_print_dimensions_reset ==
  /\ Running("changed_print_dimensions", 2)
  /\ _updating' = FALSE
  /\ stack' = Pop(stack)
  /\ UNCHANGED <<width, height, width_p, height_p, resolution, print_units,
                 resolution_units, _w, _h, _current_dimension, _current_resolution,
                 _current_resolution_units, dpm, edits, updates, pre>>
  /\ UNCHANGED <<nvars, cvars, fvars>>

\* Update print dimensions using the image dimensions and resolutions
update_print_dimensions_width ==
  /\ Running("update_print_dimensions", 1)
  /\ _w' = RInt(width)
  /\ _h' = RInt(height)
  /\ LET w_p == get_as_print_size(RInt(width), print_units, resolution, resolution_units)
         h_p == get_as_print_size(RInt(height), print_units, resolution, resolution_units)
     IN  /\ width_p' = BoxSetValue(width_p, w_p)
         /\ stack' = Emit([stack EXCEPT ![Len(stack)] = [@ EXCEPT !.pc = 2, !.a = w_p, !.b = h_p]],
                          width_p' # width_p, "changed_print_dimensions")
  /\ updates' = updates + 1
  /\ UNCHANGED <<width, height, height_p, resolution, print_units, resolution_units,
                 _updating, _current_dimension, _current_resolution,
                 _current_resolution_units, dpm, edits, pre>>
  /\ UNCHANGED <<nvars, cvars, fvars>>

update_print_dimensions_height ==
  /\ Running("update_print_dimensions", 2)
  /\ height_p' = BoxSetValue(height_p, Top.b)
  /\ stack' = Emit(Pop(stack), height_p' # height_p, "changed_print_dimensions")
  /\ UNCHANGED <<width, height, width_p, resolution, print_units, resolution_units,
                 _w, _h, _updating, _current_dimension, _current_resolution,
                 _current_resolution_units, dpm, edits, updates, pre>>
  /\ UNCHANGED <<nvars, cvars, fvars>>

\* Update image dimensions using the print dimensions and resolutions
update_image_dimensions_width ==
  /\ Running("update_image_dimensions", 1)
  /\ _w' = get_pixel_size(BoxValue(width_p), print_units, resolution, resolution_units)
  /\ _h' = get_pixel_size(BoxValue(height_p), print_units, resolution, resolution_units)
  /\ width' = SpinSetValue(_w')
  /\ stack' = Emit(Goto(stack, 2), width' # width, "changed_image_dimensions")
  /\ updates' = updates + 1
  /\ UNCHANGED <<height, width_p, height_p, resolution, print_units, resolution_units,
                 _updating, _current_dimension, _current_resolution,
                 _current_resolution_units, dpm, edits, pre>>
  /\ UNCHANGED <<nvars, cvars, fvars>>

update_image_dimensions_height ==
  /\ Running("update_image_dimensions", 2)
  /\ height' = SpinSetValue(_h)
  /\ stack' = Emit(Pop(stack), height' # height, "changed_image_dimensions")
  /\ UNCHANGED <<width, width_p, height_p, resolution, print_units, resolution_units,
                 _w, _h, _updating, _current_dimension, _current_resolution,
                 _current_resolution_units, dpm, edits, updates, pre>>
  /\ UNCHANGED <<nvars, cvars, fvars>>

\* the print size scaled by new resolution over _current_resolution
ScaledByResolution(p, cur, new) == RMul(RDiv(p, ResValue(cur)), ResValue(new))

changed_print_resolution_width ==
  /\ Running("changed_print_resolution", 1)
  /\ LET w_p == BoxValue(width_p)
         h_p == BoxValue(height_p)
         new_resolution == resolution
     IN  /\ width_p' = BoxSetValue(width_p, ScaledByResolution(w_p, _current_resolution, new_resolution))
         /\ stack' = Emit([stack EXCEPT ![Len(stack)] =
                             [@ EXCEPT !.pc = 2, !.a = w_p, !.b = h_p, !.c = new_resolution]],
                          width_p' # width_p, "changed_print_dimensions")
  /\ UNCHANGED <<width, height, height_p, resolution, print_units, resolution_units,
                 _w, _h, _updating, _current_dimension, _current_resolution,
                 _current_resolution_units, dpm, edits, updates, pre>>
  /\ UNCHANGED <<nvars, cvars, fvars>>

changed_print_resolution_height ==
  /\ Running("changed_print_resolution", 2)
  /\ height_p' = BoxSetValue(height_p, ScaledByResolution(Top.b, _current_resolution, Top.c))
  /\ stack' = Emit(Goto(stack, 3), height_p' # height_p, "changed_print_dimensions")
  /\ UNCHANGED <<width, height, width_p, resolution, print_units, resolution_units,
                 _w, _h, _updating, _current_dimension, _current_resolution,
                 _current_resolution_units, dpm, edits, updates, pre>>
  /\ UNCHANGED <<nvars, cvars, fvars>>

changed_print_resolution_done ==
  /\ Running("changed_print_resolution", 3)
  /\ _current_resolution' = resolution
  /\ stack' = Pop(stack)
  /\ UNCHANGED <<width, height, width_p, height_p, resolution, print_units,
                 resolution_units, _w, _h, _updating, _current_dimension,
                 _current_resolution_units, dpm, edits, updates, pre>>
  /\ UNCHANGED <<nvars, cvars, fvars>>

\* mutant of ConvertedResolution: the measurement formula, x / factor(f) * factor(t)
ConvertedResolution_DividesByFrom(r, f, t) ==
  RMul(RDiv(ResValue(r), resolution_u(f)), resolution_u(t))

\* the resolution value re-expressed from unit f in unit t
ConvertedResolution(r, f, t) == RDiv(RMul(ResValue(r), resolution_u(f)), resolution_u(t))

changed_resolution_units_convert ==
  /\ Running("changed_resolution_units", 1)
  /\ resolution' = ResolutionSetValue(
                     ConvertedResolution(resolution, _current_resolution_units, resolution_units))
  /\ stack' = Emit(Goto(stack, 2), resolution' # resolution, "changed_print_resolution")
  /\ UNCHANGED <<width, height, width_p, height_p, print_units, resolution_units,
                 _w, _h, _updating, _current_dimension, _current_resolution,
                 _current_resolution_units, dpm, edits, updates, pre>>
  /\ UNCHANGED <<nvars, cvars, fvars>>

changed_resolution_units_done ==
  /\ Running("changed_resolution_units", 2)
  /\ _current_resolution_units' = resolution_units
  /\ stack' = Pop(stack)
  /\ UNCHANGED <<width, height, width_p, height_p, resolution, print_units,
                 resolution_units, _w, _h, _updating, _current_dimension,
                 _current_resolution, dpm, edits, updates, pre>>
  /\ UNCHANGED <<nvars, cvars, fvars>>

\* o.setDecimals(print_p[u][0]) and, when that emits no signal, the
\* o.setSingleStep and o.setRange that follow it; [box, changed, ranged]
ConfigureDecimals(box, u) ==
  LET d  == print_p(u).dec
      vb == BoxSetDecimalsBig(box, d)
      rb == BoxSetRangeBig(vb, u, d)
  IN  IF BoxDiffers(box, vb, d)
        THEN [box |-> [v |-> BigToInt(vb), dec |-> d, rng |-> box.rng],
              changed |-> TRUE, ranged |-> FALSE]
        ELSE [box |-> [v |-> BigToInt(rb), dec |-> d, rng |-> u],
              changed |-> rb # vb, ranged |-> TRUE]

\* o.setSingleStep(1); o.setRange(print_p[u][2], print_p[u][3])
ConfigureRange(box, u) ==
  [box EXCEPT !.v = BigToInt(BoxSetRangeBig(BigFromInt(box.v), u, box.dec)), !.rng = u]

changed_print_units_height_decimals ==
  /\ Running("changed_print_units", 1)
  /\ LET r == ConfigureDecimals(height_p, print_units)
     IN  /\ height_p' = r.box
         /\ stack' = Emit(Goto(stack, IF r.ranged THEN 3 ELSE 2), r.changed,
                          "changed_print_dimensions")
  /\ UNCHANGED <<width, height, width_p, resolution, print_units, resolution_units,
                 _w, _h, _updating, _current_dimension, _current_resolution,
                 _current_resolution_units, dpm, edits, updates, pre>>
  /\ UNCHANGED <<nvars, cvars, fvars>>

changed_print_units_height_range ==
  /\ Running("changed_print_units", 2)
  /\ height_p' = ConfigureRange(height_p, print_units)
  /\ stack' = Emit(Goto(stack, 3), height_p'.v # height_p.v, "changed_print_dimensions")
  /\ UNCHANGED <<width, height, width_p, resolution, print_units, resolution_units,
                 _w, _h, _updating, _current_dimension, _current_resolution,
                 _current_resolution_units, dpm, edits, updates, pre>>
  /\ UNCHANGED <<nvars, cvars, fvars>>

changed_print_units_width_decimals ==
  /\ Running("changed_print_units", 3)
  /\ LET r == ConfigureDecimals(width_p, print_units)
     IN  /\ width_p' = r.box
         /\ stack' = Emit(Goto(stack, IF r.ranged THEN 5 ELSE 4), r.changed,
                          "changed_print_dimensions")
  /\ UNCHANGED <<width, height, height_p, resolution, print_units, resolution_units,
                 _w, _h, _updating, _current_dimension, _current_resolution,
                 _current_resolution_units, dpm, edits, updates, pre>>
  /\ UNCHANGED <<nvars, cvars, fvars>>

changed_print_units_width_range ==
  /\ Running("changed_print_units", 4)
  /\ width_p' = ConfigureRange(width_p, print_units)
  /\ stack' = Emit(Goto(stack, 5), width_p'.v # width_p.v, "changed_print_dimensions")
  /\ UNCHANGED <<width, height, height_p, resolution, print_units, resolution_units,
                 _w, _h, _updating, _current_dimension, _current_resolution,
                 _current_resolution_units, dpm, edits, updates, pre>>
  /\ UNCHANGED <<nvars, cvars, fvars>>

changed_print_units_width_convert ==
  /\ Running("changed_print_units", 5)
  /\ IF print_units # _current_dimension
       THEN /\ width_p' = BoxSetValue(width_p,
                            get_converted_measurement(BoxValue(width_p), _current_dimension, print_units))
            /\ stack' = Emit(Goto(stack, 6), width_p' # width_p, "changed_print_dimensions")
       ELSE /\ width_p' = width_p
            /\ stack' = Goto(stack, 7)
  /\ UNCHANGED <<width, height, height_p, resolution, print_units, resolution_units,
                 _w, _h, _updating, _current_dimension, _current_resolution,
                 _current_resolution_units, dpm, edits, updates, pre>>
  /\ UNCHANGED <<nvars, cvars, fvars>>

changed_print_units_height_convert ==
  /\ Running("changed_print_units", 6)
  /\ height_p' = BoxSetValue(height_p,
                   get_converted_measurement(BoxValue(height_p), _current_dimension, print_units))
  /\ stack' = Emit(Goto(stack, 7), height_p' # height_p, "changed_print_dimensions")
  /\ UNCHANGED <<width, height, width_p, resolution, print_units, resolution_units,
                 _w, _h, _updating, _current_dimension, _current_resolution,
                 _current_resolution_units, dpm, edits, updates, pre>>
  /\ UNCHANGED <<nvars, cvars, fvars>>

changed_print_units_done ==
  /\ Running("changed_print_units", 7)
  /\ _current_dimension' = print_units
  /\ stack' = Pop(stack)
  /\ UNCHANGED <<width, height, width_p, height_p, resolution, print_units,
                 resolution_units, _w, _h, _updating, _current_resolution,
                 _current_resolution_units, dpm, edits, updates, pre>>
  /\ UNCHANGED <<nvars, cvars, fvars>>

NextDialog ==
  \/ UserEditsWidth
  \/ UserEditsHeight
  \/ UserEditsWidthP
  \/ UserEditsHeightP
  \/ UserEditsResolution
  \/ UserSelectsPrintUnits
  \/ UserSelectsResolutionUnits
  \/ changed_image_dimensions_guard
  \/ changed_image_dimensions_sync
  \/ changed_print_dimensions_guard
  \/ changed_print_dimensions_reset
  \/ update_print_dimensions_width
  \/ update_print_dimensions_height
  \/ update_image_dimensions_width
  \/ update_image_dimensions_height
  \/ changed_print_resolution_width
  \/ changed_print_resolution_height
  \/ changed_print_resolution_done
  \/ changed_resolution_units_convert
  \/ changed_resolution_units_done
  \/ changed_print_units_height_decimals
  \/ changed_print_units_height_range
  \/ changed_print_units_width_decimals
  \/ changed_print_units_width_range
  \/ changed_print_units_width_convert
  \/ changed_print_units_height_convert
  \/ changed_print_units_done

(***************************************************************************)
(* QNoneDoubleSpinBox.                                                     *)
(***************************************************************************)
\* QDoubleSpinBox defaults: range 0.00 .. 99.99, single step 1.00
NoneMin == 0
NoneMax == 9999
NoneStep == 100
NoneDecimals == 2
\* the dummy value emitted when the box is set to null
DummyValue == -65535

\* numbers given to setValue, in thousandths
MaxNoneInput == 3
NoneInputs == {0, 5, 1250, 99995} \cup {k * 33333 : k \in 1..MaxNoneInput}

InitNone ==
  /\ is_None = FALSE
  /\ none_enabled = TRUE
  /\ none_value = NoneMin
  /\ none_emitted = << >>
  /\ none_op = [op |-> "init", arg |-> << >>]

\* value(): << >> for None, or <<number>>
value == IF is_None THEN << >> ELSE <<none_value>>

\* QDoubleSpinBox.setValue(r): round to two decimals, bound by the range
NoneBaseSetValue(r) == BigClamp(RRoundBig(r, NoneDecimals), NoneMin, NoneMax)

\* setValue(v): v is << >> for None, or <<r>> for the number r
NoneSetValue(v) ==
  IF v = << >>
    THEN /\ is_None' = TRUE
         /\ none_enabled' = FALSE
         /\ none_emitted' = <<DummyValue>>
         /\ none_value' = none_value
    ELSE /\ is_None' = FALSE
         /\ none_enabled' = TRUE
         /\ none_value' = NoneBaseSetValue(v[1])
         /\ none_emitted' = IF none_value' # none_value THEN <<none_value'>> ELSE none_emitted

setValue ==
  /\ \E n \in NoneInputs :
       /\ NoneSetValue(<<[num |-> <<n>>, den |-> <<1000>>]>>)
       /\ none_op' = [op |-> "setValue", arg |-> <<n>>]
  /\ UNCHANGED <<dvars, cvars, fvars>>

setValue_None ==
  /\ NoneSetValue(<< >>)
  /\ none_op' = [op |-> "setValue", arg |-> << >>]
  /\ UNCHANGED <<dvars, cvars, fvars>>

\* mutant of EventValue: the widget's own value(), which is None on a null box
EventValue_OwnValue == << >>

\* what event() hands to setValue on a QContextMenuEvent: the base class's
\* value when the box is null, None when it is not
EventValue ==
  IF is_None THEN <<[num |-> <<none_value>>, den |-> <<Pow10(NoneDecimals)>>]>> ELSE << >>

\* event(e) with a QContextMenuEvent
event_context_menu ==
  /\ NoneSetValue(EventValue)
  /\ none_op' = [op |-> "context", arg |-> value]
  /\ UNCHANGED <<dvars, cvars, fvars>>

\* event(e) with any other event goes to the base class: an enabled box is
\* stepped up or down by the user
event_other ==
  /\ none_enabled
  /\ \E v \in {none_value + NoneStep, none_value - NoneStep} \cap (NoneMin..NoneMax) :
       /\ none_value' = v
       /\ none_emitted' = <<v>>
       /\ none_op' = [op |-> "step", arg |-> <<v>>]
  /\ UNCHANGED <<is_None, none_enabled>>
  /\ UNCHANGED <<dvars, cvars, fvars>>

NextNone ==
  \/ setValue
  \/ setValue_None
  \/ event_context_menu
  \/ event_other

(***************************************************************************)
(* QColorButton.                                                           *)
(***************************************************************************)
\* colour names; "" is the empty string a caller may pass
Colors == {"", "#ff0000", "#00ff00", "#0000ff"}
MaxSignals == 4

InitColor(resets) ==
  /\ _color = << >>
  /\ is_reset_enabled \in resets
  /\ colorChanged = 0
  /\ styleSheet = ""
  /\ color_op = [op |-> "init", arg |-> << >>]

\* color()
color == _color

\* mutant of ColorDiffers: the colour is stored and announced without comparing
ColorDiffers_Always(c) == TRUE

\* whether setColor(c) finds a colour other than the stored one
ColorDiffers(c) == c # _color

\* the style sheet for the stored colour c: none for None and for ""
StyleFor(c) == IF c # << >> /\ c[1] # "" THEN "background-color: " \o c[1] \o ";" ELSE ""

\* setColor(c), c << >> for None or <<name>>
ColorSet(c) ==
  /\ IF ColorDiffers(c)
       THEN /\ _color' = c
            /\ colorChanged' = colorChanged + 1
       ELSE UNCHANGED <<_color, colorChanged>>
  /\ styleSheet' = StyleFor(_color')

setColor ==
  /\ colorChanged < MaxSignals
  /\ \E c \in {<< >>} \cup {<<n>> : n \in Colors} :
       /\ ColorSet(c)
       /\ color_op' = [op |-> "setColor", arg |-> c]
  /\ UNCHANGED is_reset_enabled
  /\ UNCHANGED <<dvars, nvars, fvars>>

\* mousePressEvent(e) with the right button
mousePressEvent_right ==
  /\ colorChanged < MaxSignals
  /\ IF is_reset_enabled
       THEN ColorSet(<< >>)
       ELSE UNCHANGED <<_color, colorChanged, styleSheet>>
  /\ color_op' = [op |-> "right", arg |-> _color]
  /\ UNCHANGED is_reset_enabled
  /\ UNCHANGED <<dvars, nvars, fvars>>

\* mousePressEvent(e) with the left button: the base class emits pressed,
\* onColorPicker shows the dialog, and the user accepts a colour
onColorPicker_accepted ==
  /\ colorChanged < MaxSignals
  /\ \E n \in Colors \ {""} :
       /\ ColorSet(<<n>>)
       /\ color_op' = [op |-> "picked", arg |-> <<n>>]
  /\ UNCHANGED is_reset_enabled
  /\ UNCHANGED <<dvars, nvars, fvars>>

\* the same, and the user rejects the dialog
onColorPicker_rejected ==
  /\ color_op' = [op |-> "rejected", arg |-> _color]
  /\ UNCHANGED <<_color, colorChanged, styleSheet, is_reset_enabled>>
  /\ UNCHANGED <<dvars, nvars, fvars>>

NextColor ==
  \/ setColor
  \/ mousePressEvent_right
  \/ onColorPicker_accepted
  \/ onColorPicker_rejected

(***************************************************************************)
(* QFileOpenLineEdit, QFileSaveLineEdit, QFolderLineEdit.                  *)
(***************************************************************************)
Texts == {"a", "b.txt", "/c/d"}
FileClasses == {"open", "save", "folder"}

InitFile(classes) ==
  /\ _text = << >>
  /\ lineedit = ""
  /\ file_class \in classes
  /\ file_stack = << >>
  /\ file_calls = 0

\* text()
text == _text

FileIdle == file_stack = << >>
FileFrame(t) == [pc |-> 1, arg |-> t]
FileTop == file_stack[Len(file_stack)]

\* setText(t) called from outside the widget
setText_called ==
  /\ FileIdle
  /\ \E t \in Texts \cup {""} :
       file_stack' = <<FileFrame(t)>>
  /\ file_calls' = 1
  /\ UNCHANGED <<_text, lineedit, file_class>>
  /\ UNCHANGED <<dvars, nvars, cvars>>

\* the user edits the line edit, which emits textChanged to setText
lineedit_edited ==
  /\ FileIdle
  /\ \E t \in (Texts \cup {""}) \ {lineedit} :
       /\ lineedit' = t
       /\ file_stack' = <<FileFrame(t)>>
  /\ file_calls' = 1
  /\ UNCHANGED <<_text, file_class>>
  /\ UNCHANGED <<dvars, nvars, cvars>>

\* whether onSelectPath reaches its file dialog: QFileSaveLineEdit reads
\* self.w, an attribute no class sets, and raises before it does
SelectPathRuns == file_class # "save"

\* the button is pressed: onSelectPath; the file dialog returns a path, or ""
\* when it is dismissed
onSelectPath ==
  /\ FileIdle
  /\ \E filename \in Texts \cup {""} :
       IF SelectPathRuns /\ filename # ""
         THEN /\ file_stack' = <<FileFrame(filename)>>
              /\ file_calls' = 1
         ELSE UNCHANGED <<file_stack, file_calls>>
  /\ UNCHANGED <<_text, lineedit, file_class>>
  /\ UNCHANGED <<dvars, nvars, cvars>>

\* setText: self._text = text
setText_store ==
  /\ ~FileIdle
  /\ FileTop.pc = 1
  /\ _text' = <<FileTop.arg>>
  /\ file_stack' = [file_stack EXCEPT ![Len(file_stack)].pc = 2]
  /\ UNCHANGED <<lineedit, file_class, file_calls>>
  /\ UNCHANGED <<dvars, nvars, cvars>>

\* whether QLineEdit.setText(t) changes the line edit's text, and so emits
\* its textChanged
LineEditChanges(t) == t # lineedit

\* setText: self.textChanged.emit(self._text), connected to lineedit.setText,
\* whose own textChanged is connected to setText
setText_emit ==
  /\ ~FileIdle
  /\ FileTop.pc = 2
  /\ IF LineEditChanges(_text[1])
       THEN /\ lineedit' = _text[1]
            /\ file_stack' = Append([file_stack EXCEPT ![Len(file_stack)].pc = 3],
                                    FileFrame(_text[1]))
            /\ file_calls' = file_calls + 1
       ELSE /\ file_stack' = SubSeq(file_stack, 1, Len(file_stack) - 1)
            /\ UNCHANGED <<lineedit, file_calls>>
  /\ UNCHANGED <<_text, file_class>>
  /\ UNCHANGED <<dvars, nvars, cvars>>

\* setText returns after the nested call
setText_return ==
  /\ ~FileIdle
  /\ FileTop.pc = 3
  /\ file_stack' = SubSeq(file_stack, 1, Len(file_stack) - 1)
  /\ UNCHANGED <<_text, lineedit, file_class, file_calls>>
  /\ UNCHANGED <<dvars, nvars, cvars>>

NextFile ==
  \/ setText_called
  \/ lineedit_edited
  \/ onSelectPath
  \/ setText_store
  \/ setText_emit
  \/ setText_return

(***************************************************************************)
(* Specifications: one per class; the objects share no state, and each     *)
(* specification constructs the other classes' objects with their default  *)
(* arguments and leaves them alone.                                        *)
(***************************************************************************)
Init == InitDialog(DpmInputs) /\ InitNone /\ InitColor({TRUE}) /\ InitFile({"open"})
Next == NextDialog
Spec == Init /\ [][Next]_vars

InitOfNone == InitDialog({DefaultDpm}) /\ InitNone /\ InitColor({TRUE}) /\ InitFile({"open"})
SpecNone == InitOfNone /\ [][NextNone]_vars

InitOfColor == InitDialog({DefaultDpm}) /\ InitNone /\ InitColor(BOOLEAN) /\ InitFile({"open"})
SpecColor == InitOfColor /\ [][NextColor]_vars

InitOfFile == InitDialog({DefaultDpm}) /\ InitNone /\ InitColor({TRUE}) /\ InitFile(FileClasses)
SpecFile == InitOfFile /\ [][NextFile]_vars

(***************************************************************************)
(* ExportImageDialog: getters.                                             *)
(***************************************************************************)
get_dots_per_meter == RMul(ResValue(resolution), resolution_u(resolution_units))

get_dots_per_inch ==
  IF resolution_units = "in"
    THEN ResValue(resolution)
    ELSE get_converted_measurement(ResValue(resolution),
                                   convert_res_to_unit(resolution_units), "in")

(***************************************************************************)
(* Properties.                                                             *)
(***************************************************************************)
\* no change handler of the dialog is running
Quiet == stack = << >>

\* a print box's value in metres, and one step of its last digit in metres
InMetres(box, u) == RDiv(BoxValue(box), print_u(u))
StepInMetres(box, u) == RDiv(BoxValue([box EXCEPT !.v = 1]), print_u(u))
\* the print size a box shows, in pixels at the resolution shown
PrintInPixels(box) ==
  RMul(InMetres(box, print_units), get_dots_per_meter)
PrintStepInPixels(box) ==
  RMul(StepInMetres(box, print_units), get_dots_per_meter)

\* C1: whenever no handler runs, the pixel width is the print width in metres
\* times the resolution in dots per metre, and so is the height, to within one
\* step of the pixel box plus one step of the print box.
C1_PixelIsPrintTimesResolution ==
  Quiet =>
    /\ RWithin(RInt(width), PrintInPixels(width_p), RInt(1), PrintStepInPixels(width_p))
    /\ RWithin(RInt(height), PrintInPixels(height_p), RInt(1), PrintStepInPixels(height_p))

\* C2: after a user edit of a pixel or print box, _updating stays set from the
\* first recomputation until the outermost handler has returned, and the two
\* update methods together run at most once.
C2_GuardHoldsThroughTheEdit ==
  pre.kind \in {"width", "height", "width_p", "height_p"} =>
    /\ updates <= 1
    /\ (~Quiet /\ updates >= 1) => _updating

\* C3: before any edit, get_dots_per_meter() is the constructor's dpm, to
\* within one step of the resolution box.
C3_ConstructedResolutionIsDpm ==
  edits = 0 =>
    RWithin(get_dots_per_meter, RInt(dpm),
            RMul(ResValue(1), resolution_u(resolution_units)), RInt(0))

\* the value changed_resolution_units has to show for the resolution e, in
\* hundredths: e rounded to the box's two decimals and bound by its range
ShowsResolution(r, e) ==
  LET half == [num |-> <<1>>, den |-> <<200>>]
      zero == RInt(0)
  IN  \/ RWithin(ResValue(r), e, half, zero)
      \/ r = ResolutionMin /\ RLeq(e, ResValue(ResolutionMin))
      \/ r = ResolutionMax /\ RLeq(ResValue(ResolutionMax), e)

\* the resolution box has been rewritten for the unit the user selected
ResolutionRewritten ==
  pre.kind = "resolution_units" /\ ~Running("changed_resolution_units", 1)

\* C4 (as amended): get_converted_measurement(x, f, t) is x / print_u[f] *
\* print_u[t], here for the print sizes shown and every target unit; and the
\* resolution x rewritten by changed_resolution_units is
\* x * resolution_u[from] / resolution_u[to], rounded to two decimals and bound
\* by the range of the resolution box.
C4_ConversionFormulas ==
  /\ \A t \in PrintUnits : \A box \in {width_p, height_p} :
       REq(RMul(get_converted_measurement(BoxValue(box), print_units, t), print_u(print_units)),
           RMul(BoxValue(box), print_u(t)))
  /\ ResolutionRewritten =>
       ShowsResolution(resolution,
         RDiv(RMul(ResValue(pre.resolution), resolution_u(pre.resolution_units)),
              resolution_u(resolution_units)))

\* C4 witness: a unit change has rewritten the resolution to another number.
C4_Witness ==
  Quiet /\ pre.kind = "resolution_units" /\ resolution # pre.resolution

\* C4 as claimed: the rewritten resolution is x / factor(from) * factor(to).
C4_ResolutionDividesByFrom ==
  ResolutionRewritten =>
    ShowsResolution(resolution,
      RMul(RDiv(ResValue(pre.resolution), resolution_u(pre.resolution_units)),
           resolution_u(resolution_units)))

\* C5: once the handlers of a unit change have finished, the pixel size, the
\* dots per metre and the print size in metres are what they were before it,
\* to within one step of the boxes that show them.
C5_UnitChangeKeepsQuantities ==
  (Quiet /\ pre.kind \in {"print_units", "resolution_units"}) =>
    /\ RWithin(_w, pre._w, RInt(1), RInt(0))
    /\ RWithin(_h, pre._h, RInt(1), RInt(0))
    /\ RWithin(get_dots_per_meter,
               RMul(ResValue(pre.resolution), resolution_u(pre.resolution_units)),
               RMul(ResValue(1), resolution_u(resolution_units)),
               RMul(ResValue(1), resolution_u(pre.resolution_units)))
    /\ RWithin(InMetres(width_p, print_units), InMetres(pre.width_p, pre.print_units),
               StepInMetres(width_p, print_units), StepInMetres(pre.width_p, pre.print_units))
    /\ RWithin(InMetres(height_p, print_units), InMetres(pre.height_p, pre.print_units),
               StepInMetres(height_p, print_units), StepInMetres(pre.height_p, pre.print_units))

\* C6: value() is None exactly when the widget is disabled; a context-menu
\* event on a non-null box makes value() None and leaves the number it holds
\* alone, and one on a null box restores value() to that number; setValue of
\* a number leaves the box non-null and enabled.
C6_NullToggle ==
  /\ []((value = << >>) <=> ~none_enabled)
  /\ []((value = << >>) <=> is_None)
  /\ [][/\ is_None' /\ ~is_None => none_value' = none_value
        /\ is_None' /\ is_None => none_value' = none_value
        /\ (none_op'.op = "context" /\ ~is_None) => value' = << >>
        /\ (none_op'.op = "context" /\ is_None) => value' = <<none_value>>
        /\ (none_op'.op = "setValue" /\ none_op'.arg # << >>) =>
             ~is_None' /\ none_enabled' /\ value' # << >>]_vars

\* C6 witness: a context-menu event on a null box has restored a number.
C6_Witness ==
  none_op.op = "context" /\ none_op.arg = << >> /\ ~is_None /\ none_value > 0

\* C7: colorChanged is emitted exactly when the stored colour changes;
\* setColor(c) emits once if c differs from color() and not if it is equal,
\* and leaves color() = c; a right-button press sets the colour to None when
\* is_reset_enabled and leaves it alone when not.
C7_ColorChangedOnChange ==
  [][/\ colorChanged' \in {colorChanged, colorChanged + 1}
     /\ (colorChanged' = colorChanged + 1) <=> (color' # color)
     /\ color_op'.op = "setColor" =>
          /\ color' = color_op'.arg
          /\ colorChanged' = colorChanged + (IF color_op'.arg # color THEN 1 ELSE 0)
     /\ color_op'.op = "right" =>
          IF is_reset_enabled THEN color' = << >> ELSE color' = color]_vars

\* C7 witness: a colour was set and a right-button press has reset it.
C7_Witness ==
  color_op.op = "right" /\ color_op.arg # << >> /\ color = << >> /\ colorChanged = 2

\* C8: whenever no setText is running, text() is the line edit's text, and a
\* change is settled by at most two calls of setText.
C8_TextInSync ==
  /\ FileIdle => text = <<lineedit>>
  /\ file_calls <= 2

\* C9: whenever no handler runs, (_w, _h) is (width.value(), height.value()).
C9_InternalSizeSynced ==
  Quiet =>
    /\ REq(_w, RInt(width)) /\ REq(_h, RInt(height))
    /\ width \in PixelMin..PixelMax /\ height \in PixelMin..PixelMax

\* C10: get_dots_per_inch() * 39.3701 is get_dots_per_meter(), and with the
\* unit dpi get_dots_per_inch() is the resolution shown.
C10_ResolutionGettersAgree ==
  Quiet =>
    /\ REq(RMul(get_dots_per_inch, print_u("in")), get_dots_per_meter)
    /\ resolution_units = "dpi" => REq(get_dots_per_inch, ResValue(resolution))

====
